---- MODULE Spec2Model ----
(***************************************************************************)
(* A model of the schema forges of postgraphql:                            *)
(*   src/src/graphql/forge/ConnectionForge.ts  (connection fields, the     *)
(*       cursor scalar and its codec, the page info type)                  *)
(*   src/src/graphql/forge/CollectionForge.ts  (root lookup fields and the *)
(*       memoized object type of a collection)                             *)
(*   src/src/catalog/collection/__tests__/CollectionKey.js  (the accessors *)
(*       of a collection key, as its tests use them)                       *)
(*   src/src/postgres/__tests__/fixtures/createKitchenSinkPGSchema.ts      *)
(*       (the fixture that loads the kitchen sink schema)                  *)
(***************************************************************************)
EXTENDS Integers, Sequences, FiniteSets, TLC

VARIABLES
    \* ---- ConnectionForge: schema construction
    fields,         \* the field descriptors createField has returned, in order
    nextTypeId,     \* identity of the next object created by `new GraphQL...Type`
    forgeError,     \* the error thrown by the last createField call, or None
    \* ---- ConnectionForge: one field resolution and its sub-selections
    pc,             \* "idle" | "awaiting" (readPage in flight) | "resolved" | "failed"
    req,            \* the field being resolved and its arguments
    outcome,        \* the error the resolver threw, or "ok", or None
    conn,           \* the Connection value the resolver returned, or Undefined
    readPageCalls,  \* the configs paginator.readPage was invoked with by this resolution
    countCalls,     \* the conditions paginator.count was invoked with
    sub,            \* the last sub-field resolved on conn, with its result
    \* ---- CollectionForge
    catalog,        \* the collections: primary key, other keys, tail relations
    stack,          \* the JavaScript call stack: createRootFieldEntries and getType frames
    cache,          \* the memo cache of getType: collection -> type, or NoType
    constructed,    \* the object types `new GraphQLObjectType` has returned, in order
    returned,       \* what the getType calls that returned have returned, and to whom
    rangeError,     \* a call overflowed the stack (RangeError: Maximum call stack size exceeded)
    rootCalls,      \* createRootFieldEntries calls made so far
    lookup,         \* the last root lookup field resolved, with its outcome
    keyReadCalls,   \* the key.read calls that resolution made
    \* ---- the Cursor scalar
    codecIn,        \* the namespaced cursor handed to serialize
    token,          \* the token serialize made of it, or <<>>
    decoded,        \* what deserialize made of the token, or NotYet
    \* ---- CollectionKey
    keyArgs,        \* the arguments the key was constructed with
    collectionKey,  \* the key object
    descriptionsSet,\* the arguments of the setDescription calls made, in order
    keyCall,        \* the last method called on the key, with what a getter returned
    \* ---- createKitchenSinkSchema
    created,        \* the module's `created` flag
    callPc,         \* where each call of createKitchenSinkSchema stands
    queriesStarted, \* client.query(testSchema) calls made so far
    queriesFailed   \* how many of them have rejected

connVars == <<fields, nextTypeId, forgeError, pc, req, outcome, conn,
              readPageCalls, countCalls, sub>>

collVars == <<catalog, stack, cache, constructed, returned, rangeError, rootCalls,
              lookup, keyReadCalls>>

codecVars == <<codecIn, token, decoded>>

keyVars == <<keyArgs, collectionKey, descriptionsSet, keyCall>>

sinkVars == <<created, callPc, queriesStarted, queriesFailed>>

vars == <<connVars, collVars, codecVars, keyVars, sinkVars>>

(***************************************************************************)
(* JavaScript values                                                       *)
(***************************************************************************)
\* undefined, where an object (a cursor, an ordering, a condition input, a
\* connection) may stand; null, where a string (an ordering name) may stand.
Undefined == [undefined |-> TRUE]
Null == "null"
None == "none"

\* JavaScript truthiness of an optional object: every object is truthy.
Truthy(v) == v # Undefined

(***************************************************************************)
(* Bounds                                                                  *)
(***************************************************************************)
MaxPage == 2          \* longest page a paginator returns
MaxFields == 3        \* createField calls in one schema construction
MaxTotalCount == 2    \* totalCount selections (aliases) on one connection
MaxKeyFields == 2     \* fields of a composite key type
MaxKeys == 1          \* unique keys of a collection, the primary key aside
MaxRelations == 2     \* tail relations of a collection
MaxStack == 4         \* frames the call stack holds
MaxRootCalls == 2     \* createRootFieldEntries calls in one schema construction
MaxNameLen == 2       \* characters of a paginator name

(***************************************************************************)
(* The catalog's paginators (external collaborators)                       *)
(***************************************************************************)
PaginatorNames == {"people", "posts"}
OrderingNames == {"id_asc", "name_desc"}
CursorPayloads == {"c1", "c2"}
ConditionArgs == { [input |-> "a1"], [input |-> "a2"] }
Counts == {1, 2}

\* A paginator: its name, the name of its GraphQL value type and whether that
\* type implements the Node interface.
Paginators ==
    { [name |-> "people", typeName |-> "Person", isNode |-> TRUE],
      [name |-> "posts", typeName |-> "Post", isNode |-> TRUE],
      [name |-> "logs", typeName |-> "Log", isNode |-> FALSE] }

PaginatorNamed(n) == CHOOSE p \in Paginators : p.name = n

Orderings == { [name |-> n] : n \in OrderingNames }

NamespacedCursors ==
    [paginatorName : PaginatorNames,
     orderingName : OrderingNames \cup {Null},
     cursor : CursorPayloads]

\* What a paginator may return from readPage: (cursor, value) pairs.
PageValue(c) == [cursor |-> c, value |-> <<"row", c>>]

RECURSIVE SeqsUpTo(_, _)
SeqsUpTo(S, n) ==
    IF n = 0 THEN { <<>> }
    ELSE LET shorter == SeqsUpTo(S, n - 1)
         IN shorter \cup { Append(s, x) : s \in { t \in shorter : Len(t) = n - 1 }, x \in S }

Pages ==
    [values : SeqsUpTo({ PageValue(c) : c \in CursorPayloads }, MaxPage),
     hasNext : BOOLEAN,
     hasPrevious : BOOLEAN]

\* first, last: an optional integer, held as the set of its values.
OptionalInts == { {}, {1} }

ConnectionArgs ==
    [orderBy : Orderings \cup {Undefined},
     before : NamespacedCursors \cup {Undefined},
     after : NamespacedCursors \cup {Undefined},
     first : OptionalInts,
     last : OptionalInts,
     condition : ConditionArgs \cup {Undefined}]

\* conditionConfig.getCondition: supplied by the caller of createField; it
\* turns the input value into a Condition.
conditionConfig_getCondition(argCondition) == [filter |-> argCondition.input]

\* The Condition literal true: every record passes.
ConditionTrue == [literal |-> TRUE]

(***************************************************************************)
(* ConnectionForge: type construction                                      *)
(***************************************************************************)
\* new GraphQLObjectType / GraphQLEnumType: a fresh object, whose identity is id.
NewType(id, name, paginator) == [id |-> id, name |-> name, paginator |-> paginator]

_createEdgeType(paginator, id) ==
    NewType(id, <<paginator.typeName, "edge">>, paginator.name)

\* The edge type is created first, then the connection type.
_createConnectionType(paginator, id) ==
    [edge |-> _createEdgeType(paginator, id),
     connection |-> NewType(id + 1, <<paginator.typeName, "connection">>, paginator.name)]

_createOrderByEnumType(paginator, id) ==
    NewType(id, <<paginator.typeName, "order-by">>, paginator.name)

\* The field descriptor createField returns, with the identities of the types
\* it created, starting at identity id.
createField(paginator, hasConditionConfig, id) ==
    LET types == _createConnectionType(paginator, id)
    IN [paginatorName |-> paginator.name,
        type |-> types.connection,
        edgeType |-> types.edge,
        orderByType |-> _createOrderByEnumType(paginator, id + 2),
        hasConditionConfig |-> hasConditionConfig]

CreateField(paginator, hasConditionConfig) ==
    /\ Len(fields) < MaxFields
    /\ IF ~paginator.isNode
       THEN /\ forgeError' = "GraphQL object type must implement the Node interface."
            /\ UNCHANGED <<fields, nextTypeId>>
       ELSE /\ fields' = Append(fields, createField(paginator, hasConditionConfig, nextTypeId))
            /\ nextTypeId' = nextTypeId + 3
            /\ forgeError' = None
    /\ UNCHANGED <<pc, req, outcome, conn, readPageCalls, countCalls, sub>>
    /\ UNCHANGED <<collVars, codecVars, keyVars, sinkVars>>

(***************************************************************************)
(* ConnectionForge: the field resolver                                     *)
(***************************************************************************)
ErrBeforePaginator == "before cursor can not be used with this connection."
ErrAfterPaginator == "after cursor can not be used with this connection."
ErrBeforeOrdering == "before cursor can not be used for this orderBy value."
ErrAfterOrdering == "after cursor can not be used for this orderBy value."

\* ordering ? ordering.name : null
OrderingNameOf(ordering) == IF Truthy(ordering) THEN ordering.name ELSE Null

\* The four checks of the resolver, in the order the code makes them: the
\* error thrown, or "ok".
CursorCheckDropAfter(paginatorName, args) ==
    IF Truthy(args.before) /\ args.before.paginatorName # paginatorName
    THEN ErrBeforePaginator
    ELSE IF Truthy(args.before) /\ args.before.orderingName # OrderingNameOf(args.orderBy)
    THEN ErrBeforeOrdering
    ELSE IF Truthy(args.after) /\ args.after.orderingName # OrderingNameOf(args.orderBy)
    THEN ErrAfterOrdering
    ELSE "ok"

CursorCheckNoNull(paginatorName, args) ==
    IF Truthy(args.before) /\ args.before.paginatorName # paginatorName
    THEN ErrBeforePaginator
    ELSE IF Truthy(args.after) /\ args.after.paginatorName # paginatorName
    THEN ErrAfterPaginator
    ELSE IF Truthy(args.before) /\ Truthy(args.orderBy)
            /\ args.before.orderingName # args.orderBy.name
    THEN ErrBeforeOrdering
    ELSE IF Truthy(args.after) /\ Truthy(args.orderBy)
            /\ args.after.orderingName # args.orderBy.name
    THEN ErrAfterOrdering
    ELSE "ok"

CursorCheck(paginatorName, args) ==
    IF Truthy(args.before) /\ args.before.paginatorName # paginatorName
    THEN ErrBeforePaginator
    ELSE IF Truthy(args.after) /\ args.after.paginatorName # paginatorName
    THEN ErrAfterPaginator
    ELSE IF Truthy(args.before) /\ args.before.orderingName # OrderingNameOf(args.orderBy)
    THEN ErrBeforeOrdering
    ELSE IF Truthy(args.after) /\ args.after.orderingName # OrderingNameOf(args.orderBy)
    THEN ErrAfterOrdering
    ELSE "ok"

\* conditionConfig && argCondition ? conditionConfig.getCondition(argCondition) : true
ConditionOf(hasConditionConfig, argCondition) ==
    IF hasConditionConfig /\ Truthy(argCondition)
    THEN conditionConfig_getCondition(argCondition)
    ELSE ConditionTrue

\* beforeCursor && beforeCursor.cursor
RawCursor(namespaced) == IF Truthy(namespaced) THEN namespaced.cursor ELSE namespaced

\* The config the resolver hands to paginator.readPage.
ReadPageConfig(field, args) ==
    [beforeCursor |-> RawCursor(args.before),
     afterCursor |-> RawCursor(args.after),
     first |-> args.first,
     last |-> args.last,
     ordering |-> args.orderBy,
     condition |-> ConditionOf(field.hasConditionConfig, args.condition)]

\* The Connection value the resolver returns.
ConnectionValueNoCondition(field, args, page) ==
    [paginator |-> field.paginatorName,
     ordering |-> args.orderBy,
     condition |-> ConditionTrue,
     page |-> page]

ConnectionValue(field, args, page) ==
    [paginator |-> field.paginatorName,
     ordering |-> args.orderBy,
     condition |-> ConditionOf(field.hasConditionConfig, args.condition),
     page |-> page]

\* resolve, up to its await: the checks, then the call of paginator.readPage.
ResolveStart(f, args) ==
    /\ pc = "idle"
    /\ f \in 1..Len(fields)
    /\ req' = [field |-> f, args |-> args]
    /\ conn' = Undefined
    /\ sub' = Undefined
    /\ countCalls' = <<>>
    /\ LET check == CursorCheck(fields[f].paginatorName, args)
       IN IF check # "ok"
          THEN /\ pc' = "failed"
               /\ outcome' = check
               /\ readPageCalls' = <<>>
          ELSE /\ pc' = "awaiting"
               /\ outcome' = None
               /\ readPageCalls' = <<ReadPageConfig(fields[f], args)>>
    /\ UNCHANGED <<fields, nextTypeId, forgeError>>
    /\ UNCHANGED <<collVars, codecVars, keyVars, sinkVars>>

\* resolve, after its await: paginator.readPage fulfilled with a page.
ReadPageFulfilled(page) ==
    /\ pc = "awaiting"
    /\ pc' = "resolved"
    /\ outcome' = "ok"
    /\ conn' = ConnectionValue(fields[req.field], req.args, page)
    /\ UNCHANGED <<fields, nextTypeId, forgeError, req, readPageCalls, countCalls, sub>>
    /\ UNCHANGED <<collVars, codecVars, keyVars, sinkVars>>

\* resolve, after its await: paginator.readPage rejected; the error propagates.
ReadPageRejected ==
    /\ pc = "awaiting"
    /\ pc' = "failed"
    /\ outcome' = "data source error"
    /\ UNCHANGED <<fields, nextTypeId, forgeError, req, conn, readPageCalls, countCalls, sub>>
    /\ UNCHANGED <<collVars, codecVars, keyVars, sinkVars>>

(***************************************************************************)
(* ConnectionForge: the resolvers of the connection, edge and page info    *)
(* types                                                                   *)
(***************************************************************************)
TypeError == [error |-> "TypeError: Cannot read property 'cursor' of undefined"]

\* values[i] of a JavaScript array, i counted from 0: undefined out of range.
ArrayAt(values, i) == IF i >= 0 /\ i < Len(values) THEN values[i + 1] ELSE Undefined

NamespacedNoOrdering(paginatorName, ordering, element) ==
    IF element = Undefined
    THEN TypeError
    ELSE [paginatorName |-> paginatorName,
          orderingName |-> Null,
          cursor |-> element.cursor]

\* x.cursor: a TypeError when x is undefined.
Namespaced(paginatorName, ordering, element) ==
    IF element = Undefined
    THEN TypeError
    ELSE [paginatorName |-> paginatorName,
          orderingName |-> OrderingNameOf(ordering),
          cursor |-> element.cursor]

startCursor(source) ==
    Namespaced(source.paginator, source.ordering, ArrayAt(source.page.values, 0))

endCursor(source) ==
    Namespaced(source.paginator, source.ordering,
               ArrayAt(source.page.values, Len(source.page.values) - 1))

\* edges: one Edge value per element of page.values.
edges(source) ==
    [i \in 1..Len(source.page.values) |->
        [paginator |-> source.paginator,
         ordering |-> source.ordering,
         cursor |-> source.page.values[i].cursor,
         value |-> source.page.values[i].value]]

\* The cursor field of the edge type forged for the paginator named paginatorName.
edgeCursor(paginatorName, edge) ==
    [paginatorName |-> paginatorName,
     orderingName |-> OrderingNameOf(edge.ordering),
     cursor |-> edge.cursor]

\* paginator.count(context, condition), called by totalCount.
totalCountCall(source) == [paginator |-> source.paginator, condition |-> source.condition]

ResolveTotalCount(n) ==
    /\ pc = "resolved"
    /\ Len(countCalls) < MaxTotalCount
    /\ countCalls' = Append(countCalls, totalCountCall(conn))
    /\ sub' = [field |-> "totalCount", result |-> n]
    /\ UNCHANGED <<fields, nextTypeId, forgeError, pc, req, outcome, conn, readPageCalls>>
    /\ UNCHANGED <<collVars, codecVars, keyVars, sinkVars>>

ResolveStartCursor ==
    /\ pc = "resolved"
    /\ sub' = [field |-> "startCursor", result |-> startCursor(conn)]
    /\ UNCHANGED <<fields, nextTypeId, forgeError, pc, req, outcome, conn,
                   readPageCalls, countCalls>>
    /\ UNCHANGED <<collVars, codecVars, keyVars, sinkVars>>

ResolveEndCursor ==
    /\ pc = "resolved"
    /\ sub' = [field |-> "endCursor", result |-> endCursor(conn)]
    /\ UNCHANGED <<fields, nextTypeId, forgeError, pc, req, outcome, conn,
                   readPageCalls, countCalls>>
    /\ UNCHANGED <<collVars, codecVars, keyVars, sinkVars>>

ResolveEdgeCursor(i) ==
    /\ pc = "resolved"
    /\ i \in 1..Len(conn.page.values)
    /\ sub' = [field |-> "edges.cursor", index |-> i,
               result |-> edgeCursor(fields[req.field].edgeType.paginator, edges(conn)[i])]
    /\ UNCHANGED <<fields, nextTypeId, forgeError, pc, req, outcome, conn,
                   readPageCalls, countCalls>>
    /\ UNCHANGED <<collVars, codecVars, keyVars, sinkVars>>


(***************************************************************************)
(* ConnectionForge: the cursor codec                                       *)
(*   serialize:   JSON.stringify, then Buffer (UTF-8), then base64         *)
(*   deserialize: base64, then Buffer.toString (UTF-8), then JSON.parse    *)
(* Text is a sequence of characters, a Buffer a sequence of bytes.         *)
(***************************************************************************)
\* JSON values.
JNull == [t |-> "null"]
JStr(chars) == [t |-> "string", chars |-> chars]
JNum(n) == [t |-> "number", n |-> n]
JArr(items) == [t |-> "array", items |-> items]

Quote == "\""
Backslash == "\\"
DigitChars == <<"0", "1", "2", "3", "4", "5", "6", "7", "8", "9">>
IsDigit(ch) == \E i \in 1..Len(DigitChars) : DigitChars[i] = ch
DigitValue(ch) == (CHOOSE i \in 1..Len(DigitChars) : DigitChars[i] = ch) - 1

RECURSIVE Digits(_)
Digits(n) ==
    IF n < 10 THEN <<DigitChars[n + 1]>>
    ELSE Digits(n \div 10) \o <<DigitChars[(n % 10) + 1]>>

\* The quote and the backslash of a string are written with a backslash.
RECURSIVE Escape(_)
Escape(chars) ==
    IF chars = <<>> THEN <<>>
    ELSE (IF Head(chars) \in {Quote, Backslash}
          THEN <<Backslash, Head(chars)>>
          ELSE <<Head(chars)>>) \o Escape(Tail(chars))

RECURSIVE JSON_stringify(_)
RECURSIVE StringifyItems(_)
StringifyItems(items) ==
    IF items = <<>> THEN <<>>
    ELSE IF Len(items) = 1 THEN JSON_stringify(items[1])
    ELSE JSON_stringify(items[1]) \o <<",">> \o StringifyItems(Tail(items))

JSON_stringify(v) ==
    IF v.t = "null" THEN <<"n", "u", "l", "l">>
    ELSE IF v.t = "string" THEN <<Quote>> \o Escape(v.chars) \o <<Quote>>
    ELSE IF v.t = "number" THEN Digits(v.n)
    ELSE <<"[">> \o StringifyItems(v.items) \o <<"]">>

\* JSON.parse by recursive descent: the value read and the text left.
RECURSIVE ParseString(_, _)
ParseString(text, acc) ==
    IF Head(text) = Quote THEN [value |-> JStr(acc), rest |-> Tail(text)]
    ELSE IF Head(text) = Backslash
    THEN ParseString(Tail(Tail(text)), Append(acc, text[2]))
    ELSE ParseString(Tail(text), Append(acc, Head(text)))

RECURSIVE ParseNumber(_, _)
ParseNumber(text, n) ==
    IF text # <<>> /\ IsDigit(Head(text))
    THEN ParseNumber(Tail(text), 10 * n + DigitValue(Head(text)))
    ELSE [value |-> JNum(n), rest |-> text]

RECURSIVE ParseValue(_)
RECURSIVE ParseItems(_, _)
ParseItems(text, acc) ==
    LET item == ParseValue(text)
    IN IF Head(item.rest) = ","
       THEN ParseItems(Tail(item.rest), Append(acc, item.value))
       ELSE [value |-> JArr(Append(acc, item.value)), rest |-> Tail(item.rest)]

ParseValue(text) ==
    IF Head(text) = Quote THEN ParseString(Tail(text), <<>>)
    ELSE IF Head(text) = "n" THEN [value |-> JNull, rest |-> SubSeq(text, 5, Len(text))]
    ELSE IF Head(text) = "["
    THEN IF text[2] = "]"
         THEN [value |-> JArr(<<>>), rest |-> SubSeq(text, 3, Len(text))]
         ELSE ParseItems(Tail(text), <<>>)
    ELSE ParseNumber(text, 0)

JSON_parse(text) == ParseValue(text).value

\* UTF-8: the characters of the model are ASCII, one byte each.
Ascii ==
    <<[ch |-> Quote, code |-> 34], [ch |-> ",", code |-> 44],
      [ch |-> "0", code |-> 48], [ch |-> "1", code |-> 49], [ch |-> "2", code |-> 50],
      [ch |-> "3", code |-> 51], [ch |-> "4", code |-> 52], [ch |-> "5", code |-> 53],
      [ch |-> "6", code |-> 54], [ch |-> "7", code |-> 55], [ch |-> "8", code |-> 56],
      [ch |-> "9", code |-> 57], [ch |-> "[", code |-> 91], [ch |-> Backslash, code |-> 92],
      [ch |-> "]", code |-> 93], [ch |-> "a", code |-> 97], [ch |-> "l", code |-> 108],
      [ch |-> "n", code |-> 110], [ch |-> "u", code |-> 117], [ch |-> "z", code |-> 122],
      [ch |-> "_", code |-> 95], [ch |-> "c", code |-> 99], [ch |-> "d", code |-> 100],
      [ch |-> "e", code |-> 101], [ch |-> "i", code |-> 105], [ch |-> "m", code |-> 109],
      [ch |-> "o", code |-> 111], [ch |-> "p", code |-> 112], [ch |-> "s", code |-> 115],
      [ch |-> "t", code |-> 116]>>

\* new Buffer(text)
Buffer_fromString(text) ==
    [i \in 1..Len(text) |-> Ascii[CHOOSE k \in 1..Len(Ascii) : Ascii[k].ch = text[i]].code]

\* buffer.toString()
Buffer_toString(bytes) ==
    [i \in 1..Len(bytes) |-> Ascii[CHOOSE k \in 1..Len(Ascii) : Ascii[k].code = bytes[i]].ch]

Base64Alphabet ==
    <<"A", "B", "C", "D", "E", "F", "G", "H", "I", "J", "K", "L", "M", "N", "O", "P",
       "Q", "R", "S", "T", "U", "V", "W", "X", "Y", "Z", "a", "b", "c", "d", "e", "f",
       "g", "h", "i", "j", "k", "l", "m", "n", "o", "p", "q", "r", "s", "t", "u", "v",
       "w", "x", "y", "z", "0", "1", "2", "3", "4", "5", "6", "7", "8", "9", "+", "/">>

Base64Char(i) == Base64Alphabet[i + 1]
Base64Index(ch) == (CHOOSE i \in 1..Len(Base64Alphabet) : Base64Alphabet[i] = ch) - 1

\* buffer.toString('base64')
RECURSIVE Buffer_toBase64(_)
Buffer_toBase64(bytes) ==
    IF bytes = <<>> THEN <<>>
    ELSE IF Len(bytes) = 1
    THEN <<Base64Char(bytes[1] \div 4), Base64Char((bytes[1] % 4) * 16), "=", "=">>
    ELSE IF Len(bytes) = 2
    THEN <<Base64Char(bytes[1] \div 4),
           Base64Char((bytes[1] % 4) * 16 + bytes[2] \div 16),
           Base64Char((bytes[2] % 16) * 4), "=">>
    ELSE <<Base64Char(bytes[1] \div 4),
           Base64Char((bytes[1] % 4) * 16 + bytes[2] \div 16),
           Base64Char((bytes[2] % 16) * 4 + bytes[3] \div 64),
           Base64Char(bytes[3] % 64)>>
         \o Buffer_toBase64(SubSeq(bytes, 4, Len(bytes)))

\* new Buffer(token, 'base64')
RECURSIVE Buffer_fromBase64(_)
Buffer_fromBase64(text64) ==
    IF text64 = <<>> THEN <<>>
    ELSE LET a == Base64Index(text64[1])
             b == Base64Index(text64[2])
         IN IF text64[3] = "="
            THEN <<a * 4 + b \div 16>>
            ELSE LET c == Base64Index(text64[3])
                 IN IF text64[4] = "="
                    THEN <<a * 4 + b \div 16, (b % 16) * 16 + c \div 4>>
                    ELSE <<a * 4 + b \div 16, (b % 16) * 16 + c \div 4,
                           (c % 4) * 64 + Base64Index(text64[4])>>
                         \o Buffer_fromBase64(SubSeq(text64, 5, Len(text64)))

\* A NamespacedCursor as the codec sees it: JSON values.
_serializeCursor(namespaced) ==
    Buffer_toBase64(Buffer_fromString(JSON_stringify(
        JArr(<<namespaced.paginatorName, namespaced.orderingName, namespaced.cursor>>))))

_deserializeCursorSwapped(serializedCursor) ==
    LET parsed == JSON_parse(Buffer_toString(Buffer_fromBase64(serializedCursor))).items
    IN [paginatorName |-> parsed[2], orderingName |-> parsed[1], cursor |-> parsed[3]]

_deserializeCursor(serializedCursor) ==
    LET parsed == JSON_parse(Buffer_toString(Buffer_fromBase64(serializedCursor))).items
    IN [paginatorName |-> parsed[1], orderingName |-> parsed[2], cursor |-> parsed[3]]

\* The well-formed namespaced cursors of the model: names are strings made of
\* a letter, the quote and the backslash; the payload is any JSON value a
\* paginator may use as its cursor.
NameChars == {"a", Quote, Backslash}
NameStrings == { JStr(chars) : chars \in SeqsUpTo(NameChars, MaxNameLen) \ { <<>> } }
CursorValues ==
    { JNum(0), JNum(7), JNum(120), JStr(<<"z">>), JStr(<<"a", Quote, ",">>),
      JStr(<<"]", Backslash>>), JArr(<<>>), JArr(<<JNum(1), JStr(<<"n">>)>>),
      JArr(<<JNull, JArr(<<JNum(9)>>)>>) }
CodecCursors ==
    [paginatorName : NameStrings,
     orderingName : { JStr(<<"a">>), JStr(<<"n", "u", "l", "l">>), JNull },
     cursor : CursorValues]

NotYet == [pending |-> TRUE]

\* The Cursor scalar serializes a namespaced cursor a resolver returned.
SerializeCursor ==
    /\ codecIn # NotYet
    /\ token = <<>>
    /\ token' = _serializeCursor(codecIn)
    /\ UNCHANGED <<codecIn, decoded>>
    /\ UNCHANGED <<connVars, collVars, keyVars, sinkVars>>

\* The Cursor scalar parses a token a client sent back.
DeserializeCursor ==
    /\ token # <<>>
    /\ decoded = NotYet
    /\ decoded' = _deserializeCursor(token)
    /\ UNCHANGED <<codecIn, token>>
    /\ UNCHANGED <<connVars, collVars, keyVars, sinkVars>>

(***************************************************************************)
(* ConnectionForge: a cursor goes out as a token and comes back as an      *)
(* argument                                                                *)
(***************************************************************************)
\* The names and payloads of the resolver, as the characters the codec sees.
Spell(name) ==
    CASE name = "people" -> <<"p", "e", "o", "p", "l", "e">>
      [] name = "posts" -> <<"p", "o", "s", "t", "s">>
      [] name = "id_asc" -> <<"i", "d", "_", "a", "s", "c">>
      [] name = "name_desc" -> <<"n", "a", "m", "e", "_", "d", "e", "s", "c">>
      [] name = "c1" -> <<"c", "1">>
      [] name = "c2" -> <<"c", "2">>

Unspell(chars) ==
    CHOOSE name \in PaginatorNames \cup OrderingNames \cup CursorPayloads : Spell(name) = chars

\* The NamespacedCursor a resolver returned, as the JSON values it consists of.
CursorToJSON(namespaced) ==
    [paginatorName |-> JStr(Spell(namespaced.paginatorName)),
     orderingName |-> IF namespaced.orderingName = Null THEN JNull
                      ELSE JStr(Spell(namespaced.orderingName)),
     cursor |-> JStr(Spell(namespaced.cursor))]

\* The NamespacedCursor parseValue returned, as the resolver reads it.
CursorFromJSON(parsed) ==
    [paginatorName |-> Unspell(parsed.paginatorName.chars),
     orderingName |-> IF parsed.orderingName = JNull THEN Null
                      ELSE Unspell(parsed.orderingName.chars),
     cursor |-> Unspell(parsed.cursor.chars)]

CursorFields == {"startCursor", "endCursor", "edges.cursor"}

\* A cursor field of the connection has resolved to a namespaced cursor: the
\* Cursor scalar is handed that value to serialize.
EmitCursor ==
    /\ pc = "resolved"
    /\ sub # Undefined
    /\ sub.field \in CursorFields
    /\ sub.result # TypeError
    /\ codecIn' = CursorToJSON(sub.result)
    /\ token' = <<>>
    /\ decoded' = NotYet
    /\ UNCHANGED <<connVars, collVars, keyVars, sinkVars>>

\* The client sends the token back as before or as after, to the same field
\* with the same orderBy: parseValue has made a namespaced cursor of it, and
\* resolve runs up to its await.
Replay(position, first, last, condition) ==
    /\ pc = "resolved"
    /\ decoded # NotYet
    /\ LET f == req.field
           args == [orderBy |-> req.args.orderBy,
                    before |-> IF position = "before" THEN CursorFromJSON(decoded)
                               ELSE Undefined,
                    after |-> IF position = "after" THEN CursorFromJSON(decoded)
                              ELSE Undefined,
                    first |-> first,
                    last |-> last,
                    condition |-> condition]
           check == CursorCheck(fields[f].paginatorName, args)
       IN /\ req' = [field |-> f, args |-> args]
          /\ IF check # "ok"
             THEN /\ pc' = "failed"
                  /\ outcome' = check
                  /\ readPageCalls' = <<>>
             ELSE /\ pc' = "awaiting"
                  /\ outcome' = None
                  /\ readPageCalls' = <<ReadPageConfig(fields[f], args)>>
    /\ conn' = Undefined
    /\ sub' = Undefined
    /\ countCalls' = <<>>
    /\ UNCHANGED <<fields, nextTypeId, forgeError>>
    /\ UNCHANGED <<collVars, codecVars, keyVars, sinkVars>>

(***************************************************************************)
(* The catalog's collections (external collaborators)                      *)
(***************************************************************************)
Collections == {"person", "post"}

\* Names are sequences of characters. FieldNames: the names of the fields of
\* composite key types.
FieldNames == { <<"i", "d">>, <<"a", "_", "i", "d">>, <<"n">> }
KeyNames == { <<"k">>, <<"b", "_", "k">> }
ArgValues == { [value |-> "x"], [value |-> "y"] }
Records == { [row |-> 1], [row |-> 2] }

Lower == <<"a", "b", "d", "i", "k", "n">>
Upper == <<"A", "B", "D", "I", "K", "N">>

UpperCase(ch) ==
    IF \E i \in 1..Len(Lower) : Lower[i] = ch
    THEN Upper[CHOOSE i \in 1..Len(Lower) : Lower[i] = ch]
    ELSE ch

\* Camel case: the words between underscores joined, each but the first
\* starting with a capital.
RECURSIVE CamelCase(_, _, _)
CamelCase(name, capital, started) ==
    IF name = <<>> THEN <<>>
    ELSE IF Head(name) = "_" THEN CamelCase(Tail(name), started, started)
    ELSE <<IF capital THEN UpperCase(Head(name)) ELSE Head(name)>>
         \o CamelCase(Tail(name), FALSE, TRUE)

\* formatName.arg
formatName_arg(name) == CamelCase(name, FALSE, FALSE)

\* A unique key: its name and its type, an ObjectType with fields (composite)
\* or a scalar type.
CompositeKeys ==
    { [name |-> n, composite |-> TRUE, fields |-> fs] :
        n \in KeyNames,
        fs \in { t \in SeqsUpTo(FieldNames, MaxKeyFields) :
                   /\ Len(t) >= 1
                   /\ \A i, j \in 1..Len(t) : i # j => t[i] # t[j] } }

ScalarKeys == { [name |-> n, composite |-> FALSE, fields |-> <<>>] : n \in KeyNames }

\* keyType.createFromFieldValues(values)
createFromFieldValues(key, values) == [type |-> key.name, fieldValues |-> values]

\* id.deserialize: the collection name and the key an id token encodes.
id_deserialize(globalId) == [name |-> globalId[1], key |-> globalId[2]]

IdTokens == (Collections \cup {"thing"}) \X ArgValues

(***************************************************************************)
(* CollectionForge.getType: the memoized object type of a collection       *)
(***************************************************************************)
NoType == [id |-> 0]

\* memoize: the cached result of an earlier call that returned.
memoize_get(collection) == cache[collection]

\* memoize: keep the result of a call that returned.
memoize_set(collection, type) == [cache EXCEPT ![collection] = type]

\* @memoize public getType: what a getType call answers without running the
\* method body, or NoType.
getTypeNotMemoized(collection) == NoType

getTypeMemoized(collection) == memoize_get(collection)

\* new GraphQLObjectType({ name: formatName.type(type.getName()), ... })
GraphQLObjectType(collection) == [id |-> Len(constructed) + 1, collection |-> collection]

GetTypeFrame(collection) == [fn |-> "getType", collection |-> collection, next |-> 1]

\* createRootFieldEntries calls this.getType(collection) once for the primary
\* key field and once for each key.
RootFrame(collection) ==
    [fn |-> "createRootFieldEntries", collection |-> collection,
     next |-> 1 + (IF catalog[collection].hasPrimaryKey THEN 0 ELSE 1)]

Top == stack[Len(stack)]

\* The collection of the getType call the top frame makes next, or "" when it
\* has no call left to make.
RootCallsTotal(collection) == 1 + Len(catalog[collection].keys)

NextCallee ==
    IF Top.fn = "createRootFieldEntries"
    THEN IF Top.next <= RootCallsTotal(Top.collection) THEN Top.collection ELSE ""
    ELSE IF Top.next <= Len(catalog[Top.collection].tailRelations)
         THEN catalog[Top.collection].tailRelations[Top.next]
         ELSE ""

Via == IF Top.fn = "createRootFieldEntries" THEN "root field" ELSE "relation field"

Advance(frames) ==
    [frames EXCEPT ![Len(frames)] = [@ EXCEPT !.next = @ + 1]]

\* createRootFieldEntries(collection) is called.
CreateRootFieldEntries(collection) ==
    /\ stack = <<>>
    /\ rootCalls < MaxRootCalls
    /\ rootCalls' = rootCalls + 1
    /\ stack' = <<RootFrame(collection)>>
    /\ UNCHANGED <<catalog, cache, constructed, returned, rangeError, lookup, keyReadCalls>>
    /\ UNCHANGED <<connVars, codecVars, keyVars, sinkVars>>

\* this.getType(callee) answered from the memo cache.
GetTypeCached ==
    /\ stack # <<>>
    /\ NextCallee # ""
    /\ getTypeMemoized(NextCallee) # NoType
    /\ returned' = returned \cup
          { [collection |-> NextCallee, type |-> getTypeMemoized(NextCallee).id, via |-> Via] }
    /\ stack' = Advance(stack)
    /\ UNCHANGED <<catalog, cache, constructed, rangeError, rootCalls, lookup, keyReadCalls>>
    /\ UNCHANGED <<connVars, codecVars, keyVars, sinkVars>>

\* this.getType(callee) runs the method body: the fields of the type, the
\* relation fields among them, are built before the type is.
GetTypeEnter ==
    /\ stack # <<>>
    /\ NextCallee # ""
    /\ getTypeMemoized(NextCallee) = NoType
    /\ Len(stack) < MaxStack
    /\ stack' = Append(stack, GetTypeFrame(NextCallee))
    /\ UNCHANGED <<catalog, cache, constructed, returned, rangeError, rootCalls,
                   lookup, keyReadCalls>>
    /\ UNCHANGED <<connVars, codecVars, keyVars, sinkVars>>

\* The call stack is exhausted: the RangeError unwinds every frame.
GetTypeOverflow ==
    /\ stack # <<>>
    /\ NextCallee # ""
    /\ getTypeMemoized(NextCallee) = NoType
    /\ Len(stack) = MaxStack
    /\ rangeError' = TRUE
    /\ stack' = <<>>
    /\ UNCHANGED <<catalog, cache, constructed, returned, rootCalls, lookup, keyReadCalls>>
    /\ UNCHANGED <<connVars, codecVars, keyVars, sinkVars>>

\* The method body of getType returns the new type; memoize keeps it.
GetTypeReturn ==
    /\ stack # <<>>
    /\ Top.fn = "getType"
    /\ NextCallee = ""
    /\ LET type == GraphQLObjectType(Top.collection)
           caller == SubSeq(stack, 1, Len(stack) - 1)
       IN /\ constructed' = Append(constructed, type)
          /\ cache' = memoize_set(Top.collection, type)
          /\ returned' = returned \cup
                { [collection |-> Top.collection, type |-> type.id,
                   via |-> IF caller[Len(caller)].fn = "createRootFieldEntries"
                           THEN "root field" ELSE "relation field"] }
          /\ stack' = Advance(caller)
    /\ UNCHANGED <<catalog, rangeError, rootCalls, lookup, keyReadCalls>>
    /\ UNCHANGED <<connVars, codecVars, keyVars, sinkVars>>

\* createRootFieldEntries returns its entries.
RootFieldEntriesReturn ==
    /\ stack # <<>>
    /\ Top.fn = "createRootFieldEntries"
    /\ NextCallee = ""
    /\ stack' = <<>>
    /\ UNCHANGED <<catalog, cache, constructed, returned, rangeError, rootCalls,
                   lookup, keyReadCalls>>
    /\ UNCHANGED <<connVars, codecVars, keyVars, sinkVars>>

(***************************************************************************)
(* CollectionForge.createRootFieldEntries: the resolvers of the root       *)
(* lookup fields                                                           *)
(***************************************************************************)
ErrIntegrity == "__id is for another collection, not the expected collection."

\* What key.read may answer: a record, or undefined when no record matches.
ReadResults == Records \cup {Undefined}

\* args[name] of a JavaScript object: undefined for a property it lacks.
ArgAt(args, name) == IF name \in DOMAIN args THEN args[name] ELSE Undefined

\* The names of the arguments the by-key field declares.
DeclaredArgs(key) ==
    IF key.composite
    THEN { formatName_arg(key.fields[i]) : i \in 1..Len(key.fields) }
    ELSE { formatName_arg(key.name) }

\* The key value the by-key resolver builds from its arguments.
KeyValue(key, args) ==
    IF key.composite
    THEN createFromFieldValues(key, [i \in 1..Len(key.fields) |-> ArgAt(args, key.fields[i])])
    ELSE ArgAt(args, formatName_arg(key.name))

\* The outcome of the lookup-by-id resolver: the error it throws, or the
\* primaryKey.read call it makes.
IdCheckSkipped(collection, id) == "ok"

IdCheck(collection, id) == IF id.name # collection THEN ErrIntegrity ELSE "ok"

\* The resolver of the lookup-by-global-id field of a collection.
LookupById(collection, globalId, readResult) ==
    /\ lookup = Undefined
    /\ catalog[collection].hasPrimaryKey
    /\ LET id == id_deserialize(globalId)
       IN IF IdCheck(collection, id) # "ok"
          THEN /\ lookup' = [field |-> "byId", collection |-> collection, token |-> globalId,
                             outcome |-> IdCheck(collection, id), result |-> Undefined]
               /\ keyReadCalls' = <<>>
          ELSE /\ lookup' = [field |-> "byId", collection |-> collection, token |-> globalId,
                             outcome |-> "returned", result |-> readResult]
               /\ keyReadCalls' = <<[collection |-> collection, key |-> <<"primary">>,
                                     value |-> id.key]>>
    /\ UNCHANGED <<catalog, stack, cache, constructed, returned, rangeError, rootCalls>>
    /\ UNCHANGED <<connVars, codecVars, keyVars, sinkVars>>

\* The resolver of the lookup field of key k of a collection.
LookupByKey(collection, k, args, readResult) ==
    /\ lookup = Undefined
    /\ k \in 1..Len(catalog[collection].keys)
    /\ LET key == catalog[collection].keys[k]
       IN /\ lookup' = [field |-> "byKey", collection |-> collection, key |-> key,
                        args |-> args, outcome |-> "returned", result |-> readResult]
          /\ keyReadCalls' = <<[collection |-> collection, key |-> key.name,
                                value |-> KeyValue(key, args)]>>
    /\ UNCHANGED <<catalog, stack, cache, constructed, returned, rangeError, rootCalls>>
    /\ UNCHANGED <<connVars, codecVars, keyVars, sinkVars>>

(***************************************************************************)
(* CollectionKey                                                           *)
(***************************************************************************)
MaxSetDescription == 3

\* The tests pass fresh symbols, or nothing at all, to the constructor and to
\* setDescription.
SymbolValue(text) == [symbol |-> text]
KeyCollectionArgs == {Undefined, SymbolValue("collection"), SymbolValue("collection2")}
KeyNameArgs == {Undefined, SymbolValue("name"), SymbolValue("name2")}
KeyDescriptionArgs == {Undefined, SymbolValue("description"), SymbolValue("description2")}

\* new CollectionKey(collection, name): the description starts out undefined.
new_CollectionKey(collection, name) ==
    [_collection |-> collection, _name |-> name, _description |-> Undefined]

getCollection(key) == key._collection
getName(key) == key._name
getDescription(key) == key._description

setDescriptionFirstWins(key, description) ==
    IF key._description = Undefined
    THEN [key EXCEPT !._description = description]
    ELSE key

setDescription(key, description) == [key EXCEPT !._description = description]

KeyCalled(method, result) == [method |-> method, result |-> result]

SetDescription(description) ==
    /\ Len(descriptionsSet) < MaxSetDescription
    /\ collectionKey' = setDescription(collectionKey, description)
    /\ descriptionsSet' = Append(descriptionsSet, description)
    \* what setDescription returns is not modelled
    /\ keyCall' = KeyCalled("setDescription", Undefined)
    /\ UNCHANGED keyArgs
    /\ UNCHANGED <<connVars, collVars, codecVars, sinkVars>>

GetName ==
    /\ keyCall' = KeyCalled("getName", getName(collectionKey))
    /\ UNCHANGED <<keyArgs, collectionKey, descriptionsSet>>
    /\ UNCHANGED <<connVars, collVars, codecVars, sinkVars>>

GetCollection ==
    /\ keyCall' = KeyCalled("getCollection", getCollection(collectionKey))
    /\ UNCHANGED <<keyArgs, collectionKey, descriptionsSet>>
    /\ UNCHANGED <<connVars, collVars, codecVars, sinkVars>>

GetDescription ==
    /\ keyCall' = KeyCalled("getDescription", getDescription(collectionKey))
    /\ UNCHANGED <<keyArgs, collectionKey, descriptionsSet>>
    /\ UNCHANGED <<connVars, collVars, codecVars, sinkVars>>

(***************************************************************************)
(* createKitchenSinkSchema                                                 *)
(* Each call is an async function: it runs until its next await, and goes  *)
(* on when the awaited promise settles. Calls interleave at the awaits.    *)
(***************************************************************************)
MaxSinkCalls == 3
SinkCalls == 1..MaxSinkCalls

\* createKitchenSinkSchema(): the check of `created`, then readFile is started.
SinkCall(c) ==
    /\ callPc[c] = "not called"
    /\ callPc' = [callPc EXCEPT ![c] = IF created THEN "returned early" ELSE "awaiting readFile"]
    /\ UNCHANGED <<created, queriesStarted, queriesFailed>>
    /\ UNCHANGED <<connVars, collVars, codecVars, keyVars>>

\* readFile calls back with the data: getTestPGClient() is called.
ReadFileResolved(c) ==
    /\ callPc[c] = "awaiting readFile"
    /\ callPc' = [callPc EXCEPT ![c] = "awaiting getTestPGClient"]
    /\ UNCHANGED <<created, queriesStarted, queriesFailed>>
    /\ UNCHANGED <<connVars, collVars, codecVars, keyVars>>

\* readFile calls back with an error: the call rejects.
ReadFileRejected(c) ==
    /\ callPc[c] = "awaiting readFile"
    /\ callPc' = [callPc EXCEPT ![c] = "rejected: readFile"]
    /\ UNCHANGED <<created, queriesStarted, queriesFailed>>
    /\ UNCHANGED <<connVars, collVars, codecVars, keyVars>>

\* getTestPGClient resolves: client.query(testSchema) is called.
ClientResolved(c) ==
    /\ callPc[c] = "awaiting getTestPGClient"
    /\ callPc' = [callPc EXCEPT ![c] = "awaiting query"]
    /\ queriesStarted' = queriesStarted + 1
    /\ UNCHANGED <<created, queriesFailed>>
    /\ UNCHANGED <<connVars, collVars, codecVars, keyVars>>

\* getTestPGClient rejects: the call rejects.
ClientRejected(c) ==
    /\ callPc[c] = "awaiting getTestPGClient"
    /\ callPc' = [callPc EXCEPT ![c] = "rejected: getTestPGClient"]
    /\ UNCHANGED <<created, queriesStarted, queriesFailed>>
    /\ UNCHANGED <<connVars, collVars, codecVars, keyVars>>

\* The query resolves: created = true, and the call returns.
QueryResolved(c) ==
    /\ callPc[c] = "awaiting query"
    /\ created' = TRUE
    /\ callPc' = [callPc EXCEPT ![c] = "returned"]
    /\ UNCHANGED <<queriesStarted, queriesFailed>>
    /\ UNCHANGED <<connVars, collVars, codecVars, keyVars>>

\* The query rejects: the error is logged and thrown again.
QueryRejected(c) ==
    /\ callPc[c] = "awaiting query"
    /\ callPc' = [callPc EXCEPT ![c] = "rejected: query"]
    /\ queriesFailed' = queriesFailed + 1
    /\ UNCHANGED <<created, queriesStarted>>
    /\ UNCHANGED <<connVars, collVars, codecVars, keyVars>>

(***************************************************************************)
(* Specifications                                                          *)
(***************************************************************************)
IdleResolution ==
    /\ pc = "idle"
    /\ req = Undefined
    /\ outcome = None
    /\ conn = Undefined
    /\ readPageCalls = <<>>
    /\ countCalls = <<>>
    /\ sub = Undefined

NoConnectionFields ==
    /\ fields = <<>>
    /\ nextTypeId = 1
    /\ forgeError = None
    /\ IdleResolution

IdleCodec ==
    /\ codecIn = NotYet
    /\ token = <<>>
    /\ decoded = NotYet

IdleCollectionForge ==
    /\ stack = <<>>
    /\ cache = [c \in Collections |-> NoType]
    /\ constructed = <<>>
    /\ returned = {}
    /\ rangeError = FALSE
    /\ rootCalls = 0
    /\ lookup = Undefined
    /\ keyReadCalls = <<>>

\* No key is in use: one constructed without arguments, never called.
IdleKey ==
    /\ keyArgs = [collection |-> Undefined, name |-> Undefined]
    /\ collectionKey = new_CollectionKey(Undefined, Undefined)
    /\ descriptionsSet = <<>>
    /\ keyCall = Undefined

\* The fixture module is loaded, and createKitchenSinkSchema not called yet.
IdleSink ==
    /\ created = FALSE
    /\ callPc = [c \in SinkCalls |-> "not called"]
    /\ queriesStarted = 0
    /\ queriesFailed = 0

EmptyCatalog ==
    [c \in Collections |-> [hasPrimaryKey |-> FALSE, keys |-> <<>>, tailRelations |-> <<>>]]

\* Schema construction: any sequence of createField calls.
InitForge ==
    /\ NoConnectionFields
    /\ catalog = EmptyCatalog
    /\ IdleCollectionForge
    /\ IdleKey
    /\ IdleSink
    /\ IdleCodec

NextForge ==
    \E p \in Paginators, c \in BOOLEAN : CreateField(p, c)

SpecForge == InitForge /\ [][NextForge]_vars

\* Request time: the schema holds one connection field with a condition config
\* and one without, for different paginators.
InitResolve ==
    /\ fields = <<createField(PaginatorNamed("people"), TRUE, 1),
                  createField(PaginatorNamed("posts"), FALSE, 4)>>
    /\ nextTypeId = 7
    /\ forgeError = None
    /\ IdleResolution
    /\ catalog = EmptyCatalog
    /\ IdleCollectionForge
    /\ IdleKey
    /\ IdleSink
    /\ IdleCodec

NextResolve ==
    \/ pc = "idle" /\ \E f \in 1..Len(fields), args \in ConnectionArgs : ResolveStart(f, args)
    \/ pc = "awaiting" /\ \E page \in Pages : ReadPageFulfilled(page)
    \/ ReadPageRejected
    \/ \E n \in Counts : ResolveTotalCount(n)
    \/ ResolveStartCursor
    \/ ResolveEndCursor
    \/ \E i \in 1..MaxPage : ResolveEdgeCursor(i)

SpecResolve == InitResolve /\ [][NextResolve]_vars

\* A client pages through a connection: the first request carries no cursor,
\* every later one a cursor an earlier response held, sent back as a token.
FirstPageArgs == { args \in ConnectionArgs : args.before = Undefined /\ args.after = Undefined }
PlainPages == { page \in Pages : ~page.hasNext /\ ~page.hasPrevious }

NextReplay ==
    \/ pc = "idle" /\ \E f \in 1..Len(fields), args \in FirstPageArgs : ResolveStart(f, args)
    \/ pc = "awaiting" /\ \E page \in PlainPages : ReadPageFulfilled(page)
    \/ ReadPageRejected
    \/ ResolveStartCursor
    \/ ResolveEndCursor
    \/ \E i \in 1..MaxPage : ResolveEdgeCursor(i)
    \/ EmitCursor
    \/ SerializeCursor
    \/ DeserializeCursor
    \/ \E position \in {"before", "after"}, first \in OptionalInts, last \in OptionalInts,
          condition \in ConditionArgs \cup {Undefined} :
            Replay(position, first, last, condition)

SpecReplay == InitResolve /\ [][NextReplay]_vars

\* Schema construction over any catalog of two collections, cyclic ones
\* included: createRootFieldEntries and the getType calls it leads to.
GetTypeCatalogs ==
    [Collections ->
        [hasPrimaryKey : BOOLEAN,
         keys : SeqsUpTo(ScalarKeys, MaxKeys),
         tailRelations : SeqsUpTo(Collections, MaxRelations)]]

InitGetType ==
    /\ NoConnectionFields
    /\ catalog \in GetTypeCatalogs
    /\ IdleCollectionForge
    /\ IdleKey
    /\ IdleSink
    /\ IdleCodec

NextGetType ==
    \/ \E c \in Collections : CreateRootFieldEntries(c)
    \/ GetTypeCached
    \/ GetTypeEnter
    \/ GetTypeOverflow
    \/ GetTypeReturn
    \/ RootFieldEntriesReturn

SpecGetType == InitGetType /\ [][NextGetType]_vars

\* Request time: one root lookup field is resolved. The collection person has
\* any primary key and keys, the collection post a primary key only.
LookupCatalogs ==
    { [c \in Collections |->
         IF c = "person"
         THEN [hasPrimaryKey |-> pk, keys |-> ks, tailRelations |-> <<>>]
         ELSE [hasPrimaryKey |-> TRUE, keys |-> <<>>, tailRelations |-> <<>>]] :
      pk \in BOOLEAN, ks \in SeqsUpTo(CompositeKeys \cup ScalarKeys, MaxKeys) }

InitLookup ==
    /\ NoConnectionFields
    /\ catalog \in LookupCatalogs
    /\ IdleCollectionForge
    /\ IdleKey
    /\ IdleSink
    /\ IdleCodec

NextLookup ==
    \/ \E c \in Collections, globalId \in IdTokens, r \in ReadResults : LookupById(c, globalId, r)
    \/ \E c \in Collections, k \in 1..MaxKeys :
          /\ k <= Len(catalog[c].keys)
          /\ \E args \in [DeclaredArgs(catalog[c].keys[k]) -> ArgValues \cup {Undefined}],
                r \in ReadResults : LookupByKey(c, k, args, r)

SpecLookup == InitLookup /\ [][NextLookup]_vars

\* The Cursor scalar: a namespaced cursor is serialized, and the token parsed.
InitCodec ==
    /\ NoConnectionFields
    /\ catalog = EmptyCatalog
    /\ IdleCollectionForge
    /\ IdleKey
    /\ IdleSink
    /\ codecIn \in CodecCursors
    /\ token = <<>>
    /\ decoded = NotYet

NextCodec ==
    \/ SerializeCursor
    \/ DeserializeCursor

SpecCodec == InitCodec /\ [][NextCodec]_vars

\* A collection key is constructed with any arguments, and any sequence of
\* setDescription and getter calls is made on it.
InitKey ==
    /\ NoConnectionFields
    /\ catalog = EmptyCatalog
    /\ IdleCollectionForge
    /\ IdleCodec
    /\ keyArgs \in [collection : KeyCollectionArgs, name : KeyNameArgs]
    /\ collectionKey = new_CollectionKey(keyArgs.collection, keyArgs.name)
    /\ descriptionsSet = <<>>
    /\ keyCall = Undefined
    /\ IdleSink

NextKey ==
    \/ \E d \in KeyDescriptionArgs : SetDescription(d)
    \/ GetName
    \/ GetCollection
    \/ GetDescription

SpecKey == InitKey /\ [][NextKey]_vars

\* Test files call createKitchenSinkSchema, each call at any moment.
InitSink ==
    /\ NoConnectionFields
    /\ catalog = EmptyCatalog
    /\ IdleCollectionForge
    /\ IdleCodec
    /\ IdleKey
    /\ IdleSink

NextSink ==
    \/ \E c \in SinkCalls : SinkCall(c)
    \/ \E c \in SinkCalls : ReadFileResolved(c)
    \/ \E c \in SinkCalls : ReadFileRejected(c)
    \/ \E c \in SinkCalls : ClientResolved(c)
    \/ \E c \in SinkCalls : ClientRejected(c)
    \/ \E c \in SinkCalls : QueryResolved(c)
    \/ \E c \in SinkCalls : QueryRejected(c)

SpecSink == InitSink /\ [][NextSink]_vars

(***************************************************************************)
(* Properties of the connection field resolver                             *)
(***************************************************************************)
ReqField == fields[req.field]
SuppliedCursors == { c \in {req.args.before, req.args.after} : Truthy(c) }
BeforeForeign == Truthy(req.args.before) /\ req.args.before.paginatorName # ReqField.paginatorName
AfterForeign == Truthy(req.args.after) /\ req.args.after.paginatorName # ReqField.paginatorName
BeforeOtherOrdering ==
    Truthy(req.args.before) /\ req.args.before.orderingName # OrderingNameOf(req.args.orderBy)
AfterOtherOrdering ==
    Truthy(req.args.after) /\ req.args.after.orderingName # OrderingNameOf(req.args.orderBy)

\* C1: when the before or the after cursor carries another paginator's name,
\* the resolution fails with the paginator-mismatch error of that argument
\* (before is examined first) and paginator.readPage is never invoked,
\* whatever the other arguments are, a mismatching ordering name included.
C1_PaginatorMismatchRejected ==
    (pc # "idle" /\ (BeforeForeign \/ AfterForeign)) =>
        /\ pc = "failed"
        /\ outcome = IF BeforeForeign THEN ErrBeforePaginator ELSE ErrAfterPaginator
        /\ readPageCalls = <<>>

\* C1 witness: a resolution failed on an after cursor of another paginator
\* whose ordering name mismatches too, next to a before cursor of this
\* paginator with a mismatching ordering name.
C1_Witness ==
    /\ pc = "failed"
    /\ AfterForeign /\ AfterOtherOrdering
    /\ Truthy(req.args.before) /\ ~BeforeForeign /\ BeforeOtherOrdering
    /\ outcome = ErrAfterPaginator

\* C2: when every supplied cursor carries the field's paginator name and one
\* of them carries an ordering name other than that of the resolved orderBy
\* (null when there is no ordering), the resolution fails with the
\* ordering-mismatch error and readPage is never invoked; a config handed to
\* readPage never pairs an ordering with a cursor minted under another one.
C2_OrderingMismatchRejected ==
    pc # "idle" =>
        /\ (~BeforeForeign /\ ~AfterForeign /\ (BeforeOtherOrdering \/ AfterOtherOrdering)) =>
              /\ pc = "failed"
              /\ outcome = IF BeforeOtherOrdering THEN ErrBeforeOrdering ELSE ErrAfterOrdering
              /\ readPageCalls = <<>>
        /\ \A i \in 1..Len(readPageCalls) : \A c \in SuppliedCursors :
              c.orderingName = OrderingNameOf(readPageCalls[i].ordering)

\* C2 witness: no ordering was resolved and the after cursor was minted under
\* an ordering; the resolution failed with the ordering-mismatch error.
C2_Witness ==
    /\ pc = "failed"
    /\ req.args.orderBy = Undefined
    /\ req.args.before = Undefined
    /\ Truthy(req.args.after) /\ ~AfterForeign /\ req.args.after.orderingName # Null
    /\ outcome = ErrAfterOrdering

\* C6: the fields createField returned for one paginator share one connection
\* type and one edge type (the identical type object).
C6_ConnectionTypeMemoized ==
    \A i, j \in 1..Len(fields) :
        fields[i].paginatorName = fields[j].paginatorName =>
            /\ fields[i].type = fields[j].type
            /\ fields[i].edgeType = fields[j].edgeType

\* The namespaced cursor of element i (from 1) of the connection's page.
NamespacedCursorAt(i) ==
    [paginatorName |-> ReqField.paginatorName,
     orderingName |-> OrderingNameOf(req.args.orderBy),
     cursor |-> conn.page.values[i].cursor]

\* C7: pageInfo.startCursor is the namespaced cursor of the first element of
\* page.values and pageInfo.endCursor that of the last; on an empty page both
\* are absent and no error is raised.
C7_PageInfoCursors ==
    (pc = "resolved" /\ sub # Undefined /\ sub.field \in {"startCursor", "endCursor"}) =>
        sub.result = IF conn.page.values = <<>> THEN Undefined
                     ELSE IF sub.field = "startCursor" THEN NamespacedCursorAt(1)
                     ELSE NamespacedCursorAt(Len(conn.page.values))

\* The condition the claim expects readPage and count to receive.
ExpectedCondition ==
    IF ReqField.hasConditionConfig /\ req.args.condition # Undefined
    THEN conditionConfig_getCondition(req.args.condition)
    ELSE ConditionTrue

\* C9: paginator.count is called only by a step that resolves totalCount on a
\* resolved connection, never by the resolution of the connection field, and
\* then with the condition readPage was given for that connection:
\* getCondition(arg) when a condition config and a condition argument are
\* both there, the literal true otherwise.
C9_CountOnlyForTotalCount ==
    [][countCalls' # countCalls =>
          /\ pc = "resolved" /\ pc' = "resolved"
          /\ sub'.field = "totalCount"
          /\ Len(readPageCalls) = 1
          /\ readPageCalls[1].condition = ExpectedCondition
          /\ countCalls' = Append(countCalls,
                                  [paginator |-> ReqField.paginatorName,
                                   condition |-> readPageCalls[1].condition])]_vars

\* C9 witness: count was called once, with a condition made by getCondition.
C9_Witness ==
    /\ pc = "resolved"
    /\ Len(countCalls) = 1
    /\ ReqField.hasConditionConfig
    /\ req.args.condition # Undefined
    /\ countCalls[1].condition = conditionConfig_getCondition(req.args.condition)

(***************************************************************************)
(* Properties of the collection forge                                      *)
(***************************************************************************)
\* C3: the lookup-by-global-id field of a collection raises the integrity
\* error, without calling primaryKey.read, when the id names another
\* collection; otherwise it calls primaryKey.read once, with the id's key, and
\* returns what read answered, undefined (no record) included.
C3_LookupById ==
    (lookup # Undefined /\ lookup.field = "byId") =>
        LET id == id_deserialize(lookup.token)
        IN IF id.name # lookup.collection
           THEN /\ lookup.outcome = ErrIntegrity
                /\ keyReadCalls = <<>>
           ELSE /\ lookup.outcome = "returned"
                /\ lookup.result \in ReadResults
                /\ keyReadCalls = <<[collection |-> lookup.collection,
                                     key |-> <<"primary">>, value |-> id.key]>>

\* C3 witness: an id of the field's own collection whose key matches no
\* record: read was called once and the field resolved to undefined.
C3_Witness ==
    /\ lookup # Undefined
    /\ lookup.field = "byId"
    /\ id_deserialize(lookup.token).name = lookup.collection
    /\ Len(keyReadCalls) = 1
    /\ lookup.outcome = "returned"
    /\ lookup.result = Undefined

\* C4: getType terminates on every catalog: no call overflows the stack, and
\* no getType call is entered for a collection whose type is being built.
C4_GetTypeTerminates ==
    /\ ~rangeError
    /\ \A i, j \in 1..Len(stack) :
          (i < j /\ stack[i].fn = "getType" /\ stack[j].fn = "getType")
              => stack[i].collection # stack[j].collection

\* C5: the getType calls that returned for one collection all returned the
\* same type, whether made for a root field or for a relation field, and at
\* most one object type was constructed per collection.
C5_OneTypePerCollection ==
    /\ \A r1, r2 \in returned : r1.collection = r2.collection => r1.type = r2.type
    /\ \A i, j \in 1..Len(constructed) :
          constructed[i].collection = constructed[j].collection => i = j

\* C5 witness: getType returned for one collection both to a root field entry
\* and to a relation field of another collection's type.
C5_Witness ==
    \E r1, r2 \in returned :
        /\ r1.collection = r2.collection
        /\ r1.via = "root field"
        /\ r2.via = "relation field"
        /\ \E i \in 1..Len(constructed) :
              constructed[i].collection # r1.collection

\* C8: the by-key field of a composite key declares one argument per field of
\* the key type, and resolving it calls key.read once with
\* createFromFieldValues of the values supplied under the declared argument
\* names, in field order.
C8_CompositeKeyRebuilt ==
    (lookup # Undefined /\ lookup.field = "byKey" /\ lookup.key.composite) =>
        /\ Cardinality(DeclaredArgs(lookup.key)) = Len(lookup.key.fields)
        /\ keyReadCalls =
              <<[collection |-> lookup.collection, key |-> lookup.key.name,
                 value |-> createFromFieldValues(lookup.key,
                     [i \in 1..Len(lookup.key.fields) |->
                         lookup.args[formatName_arg(lookup.key.fields[i])]])]>>

(***************************************************************************)
(* Properties of the cursor codec                                          *)
(***************************************************************************)
\* C10: deserializing the token serialize made of a well-formed namespaced
\* cursor gives back its paginator name, its ordering name (or null) and its
\* cursor payload.
C10_CursorRoundTrip ==
    decoded # NotYet =>
        /\ token = _serializeCursor(codecIn)
        /\ decoded.paginatorName = codecIn.paginatorName
        /\ decoded.orderingName = codecIn.orderingName
        /\ decoded.cursor = codecIn.cursor

\* C10 witness: a cursor whose names and payload need escaping, and whose
\* JSON text is not a multiple of three bytes long, has made the round trip.
C10_Witness ==
    /\ decoded # NotYet
    /\ codecIn.paginatorName = JStr(<<Quote, Backslash>>)
    /\ codecIn.orderingName = JNull
    /\ codecIn.cursor = JStr(<<"a", Quote, ",">>)
    /\ token[Len(token)] = "="

(***************************************************************************)
(* Properties of the collection key                                        *)
(***************************************************************************)
\* The description the key should hold: undefined until setDescription has
\* been called, and then the argument of the most recent call.
LastDescriptionSet ==
    IF descriptionsSet = <<>> THEN Undefined
    ELSE descriptionsSet[Len(descriptionsSet)]

\* C11: after any sequence of setDescription calls, getDescription returns
\* undefined if none has been made and otherwise the argument of the most
\* recent one; getName and getCollection return the name and the collection
\* the constructor was given.
C11_KeyAccessors ==
    /\ getDescription(collectionKey) = LastDescriptionSet
    /\ keyCall # Undefined =>
          /\ keyCall.method = "getDescription" => keyCall.result = LastDescriptionSet
          /\ keyCall.method = "getName" => keyCall.result = keyArgs.name
          /\ keyCall.method = "getCollection" => keyCall.result = keyArgs.collection

\* getDescription has answered after two setDescription calls with different
\* arguments, on a key constructed with a name and a collection.
C11_Witness ==
    /\ Len(descriptionsSet) >= 2
    /\ descriptionsSet[Len(descriptionsSet)] # descriptionsSet[1]
    /\ descriptionsSet[Len(descriptionsSet)] # Undefined
    /\ keyArgs.name # Undefined
    /\ keyArgs.collection # Undefined
    /\ keyCall # Undefined
    /\ keyCall.method = "getDescription"
    /\ keyCall.result = descriptionsSet[Len(descriptionsSet)]

(***************************************************************************)
(* Properties of a cursor sent back                                        *)
(***************************************************************************)
MismatchErrors == {ErrBeforePaginator, ErrAfterPaginator, ErrBeforeOrdering, ErrAfterOrdering}

\* The raw payload of the cursor that went out as the token.
EmittedPayload == Unspell(codecIn.cursor.chars)

\* C12: a cursor a cursor field of a connection emitted, sent back as before
\* or after to the same field with the same orderBy, raises neither a
\* paginator-mismatch nor an ordering-mismatch error, and readPage receives
\* the raw payload the paginator gave, not the namespaced wrapper.
C12_ReplayAccepted ==
    [][(pc = "resolved" /\ pc' # "resolved") =>
          /\ req'.field = req.field
          /\ req'.args.orderBy = req.args.orderBy
          /\ Truthy(req'.args.before) \/ Truthy(req'.args.after)
          /\ outcome' \notin MismatchErrors
          /\ pc' = "awaiting"
          /\ Len(readPageCalls') = 1
          /\ Truthy(req'.args.before) => readPageCalls'[1].beforeCursor = EmittedPayload
          /\ Truthy(req'.args.after) => readPageCalls'[1].afterCursor = EmittedPayload]_vars

\* A cursor emitted under no ordering came back as after, and one emitted
\* under an ordering as before: readPage was called with its payload.
C12_Witness ==
    /\ pc = "awaiting"
    /\ decoded # NotYet
    /\ \/ /\ req.args.orderBy = Undefined
          /\ Truthy(req.args.after)
          /\ req.args.after.orderingName = Null
          /\ readPageCalls[1].afterCursor = req.args.after.cursor
       \/ /\ req.args.orderBy # Undefined
          /\ Truthy(req.args.before)
          /\ req.args.before.orderingName = req.args.orderBy.name
          /\ readPageCalls[1].beforeCursor = req.args.before.cursor

(***************************************************************************)
(* Properties of createKitchenSinkSchema                                   *)
(***************************************************************************)
\* C13: whatever the number of calls and their interleaving, the kitchen sink
\* SQL is run at most once as long as no query has failed; a call whose query
\* failed has rejected, and `created` is true only once a query has succeeded.
C13_SqlRunAtMostOnce ==
    /\ queriesFailed = 0 => queriesStarted <= 1
    /\ created => \E c \in SinkCalls : callPc[c] = "returned"
    /\ queriesFailed = Cardinality({ c \in SinkCalls : callPc[c] = "rejected: query" })

====
